---- MODULE Spec2Model ----
(***************************************************************************)
(* Discord alert backend of bugsink (alerts/service_backends/discord.py):  *)
(* the scheduling methods of DiscordBackend, the two delivery tasks and    *)
(* the two status recorders, as a state machine over the table of          *)
(* MessagingServiceConfig rows.                                            *)
(*                                                                         *)
(* Optional (nullable) values are sequences of length at most one: None is *)
(* <<>> and Some(v) is <<v>>.  Text that is sliced or parsed (response     *)
(* bodies, issue titles) is run-length encoded: a text is a sequence of    *)
(* runs <<c, n>>, n >= 1 copies of the character c, adjacent runs holding  *)
(* different characters.                                                   *)
(***************************************************************************)
EXTENDS Integers, Sequences, FiniteSets, TLC

VARIABLES rows,     \* MessagingServiceConfig table as committed: id -> row
          issues,   \* ids of the Issue rows that exist
          jobs,     \* the tasks handed to the task runner, in scheduling order
          lock,     \* job holding the immediate transaction, 0 when none does
          txn,      \* the uncommitted save() of the open transaction
          clock     \* the value timezone.now() returns next

vars == <<rows, issues, jobs, lock, txn, clock>>

\* ------------------------------------------------------------------ bounds
MaxJobs == 2

\* --------------------------------------------------------- optional values
None == <<>>
Some(v) == <<v>>

\* -------------------------------------------------------------------- text
RECURSIVE TextLen(_)
TextLen(t) == IF t = <<>> THEN 0 ELSE Head(t)[2] + TextLen(Tail(t))

\* t[:n] of Python, for n >= 0
RECURSIVE Slice(_, _)
Slice(t, n) ==
    IF t = <<>> \/ n = 0 THEN <<>>
    ELSE IF Head(t)[2] >= n THEN << <<Head(t)[1], n>> >>
    ELSE <<Head(t)>> \o Slice(Tail(t), n - Head(t)[2])

Quote == "\""

StripWs(t) ==
    LET l == IF t # <<>> /\ Head(t)[1] = " " THEN Tail(t) ELSE t
    IN  IF l # <<>> /\ l[Len(l)][1] = " " THEN SubSeq(l, 1, Len(l) - 1) ELSE l

\* json.loads(text) returns (TRUE) or raises JSONDecodeError (FALSE), for texts
\* over the characters 1, a, space and the double quote: the documents are an
\* integer or a string literal, with surrounding whitespace.
json_loads(text) ==
    LET v == StripWs(text)
    IN  \/ Len(v) = 1 /\ v[1][1] = "1"
        \/ Len(v) = 1 /\ v[1] = <<Quote, 2>>
        \/ /\ Len(v) >= 3
           /\ v[1] = <<Quote, 1>>
           /\ v[Len(v)] = <<Quote, 1>>
           /\ \A i \in 2..(Len(v) - 1) : v[i][1] # Quote

\* --------------------------------------------------------------- constants
ResponseTextLimit == 2000
TitleLimit == 200
DefaultColor == 3447003
TestColor == 3447003
ColorNew == 15158332
ColorRegressed == 15105570
ColorUnmuted == 15844367
RequestTimeout == 5

BASE_URL == "https://bugsink.example"

\* ------------------------------------------------------------ sample data
ConfigIds == {1, 2}
\* the configuration the DiscordBackend instance is bound to (self.service_config)
BackendConfig == 1
IssueIds == {1}

\* a body that is JSON only in its first ResponseTextLimit characters
BodyCutValid == << <<"1", 1>>, <<" ", ResponseTextLimit - 1>>, <<"a", 1>> >>
\* a body that is JSON only as a whole
BodyFullValid == << <<Quote, 1>>, <<"a", ResponseTextLimit - 1>>, <<Quote, 1>> >>
BodyShortJson == << <<Quote, 1>>, <<"a", 2>>, <<Quote, 1>> >>
BodyEmpty == <<>>

Response(status, text) == [status_code |-> status, text |-> text]

SampleResponses ==
    { Response(204, BodyEmpty), Response(304, BodyEmpty),
      Response(404, BodyShortJson), Response(400, BodyFullValid),
      Response(502, BodyCutValid) }

\* exceptions: the class name, str(e), and the response attribute that
\* requests' exceptions carry
Exc(type, message, response) ==
    [type |-> type, message |-> message, response |-> response]

ConnectionError == Exc("ConnectionError", "Connection refused", None)
UnicodeError == Exc("UnicodeError", "label empty or too long", None)
OperationalError == Exc("OperationalError", "database is locked", None)
IssueDoesNotExist ==
    Exc("Issue.DoesNotExist", "Issue matching query does not exist.", None)

IsRequestException(e) == e.type \in {"HTTPError", "ConnectionError"}

\* what requests.post can do: return a response, raise a RequestException, or
\* raise some other exception
PostOutcomes ==
    [kind : {"response"}, response : {Some(r) : r \in SampleResponses},
     exception : {None}]
    \cup [kind : {"raise"}, response : {None},
          exception : {Some(ConnectionError), Some(UnicodeError)}]

\* issue.title(): TitleLimit - 1 times a, one b, and then 50 times c for issue
\* 1, one c for issue 2, nothing more for any other issue
IssueTitle(id) ==
    << <<"a", TitleLimit - 1>>, <<"b", 1>> >>
        \o (IF id = 1 THEN << <<"c", 50>> >>
            ELSE IF id = 2 THEN << <<"c", 1>> >>
            ELSE <<>>)

Issue(id) ==
    [title |-> IssueTitle(id),
     project_name |-> "project",
     absolute_url |-> "/issues/issue/" \o ToString(id) \o "/"]

ClearedFailure ==
    [last_failure_timestamp |-> None,
     last_failure_error_type |-> None,
     last_failure_error_message |-> None,
     last_failure_status_code |-> None,
     last_failure_response_text |-> None,
     last_failure_is_json |-> None]

FailureFieldNames == DOMAIN ClearedFailure

NewRow(id) ==
    [config |-> [webhook_url |-> "https://discord.example/hook" \o ToString(id)],
     display_name |-> "discord" \o ToString(id),
     project_name |-> "project"] @@ ClearedFailure

\* ---------------------------------------------------------------- payloads
\* variant of truncatechars: n characters are kept and the ellipsis follows
truncatechars_keeps_n(text, n) ==
    IF TextLen(text) <= n THEN text ELSE Slice(text, n) \o << <<"...", 1>> >>

\* django.template.defaultfilters.truncatechars: the result is at most n
\* characters long, the ellipsis included
truncatechars(text, n) ==
    IF TextLen(text) <= n THEN text ELSE Slice(text, n - 1) \o << <<"...", 1>> >>

\* discord_backend_send_test_message, the payload
test_message_data(project_name, display_name) ==
    [content |-> "**TEST issue**",
     embeds |-> <<
        [title |-> "Test message by Bugsink to test the webhook setup.",
         url |-> BASE_URL \o "/issues/issue/00000000-0000-0000-0000-000000000000/",
         color |-> TestColor,
         fields |-> << [name |-> "Project", value |-> project_name, inline |-> TRUE],
                       [name |-> "Message backend", value |-> display_name,
                        inline |-> TRUE] >>] >>]

\* variant of color_map_get: the lookup ignores the case of alert_reason
color_map_get_ignores_case(alert_reason) ==
    CASE alert_reason \in {"NEW", "new"} -> ColorNew
      [] alert_reason = "REGRESSED" -> ColorRegressed
      [] alert_reason = "UNMUTED" -> ColorUnmuted
      [] OTHER -> DefaultColor

\* color_map.get(alert_reason, 3447003)
color_map_get(alert_reason) ==
    CASE alert_reason = "NEW" -> ColorNew
      [] alert_reason = "REGRESSED" -> ColorRegressed
      [] alert_reason = "UNMUTED" -> ColorUnmuted
      [] OTHER -> DefaultColor

\* variant of description_parts: `if unmute_reason is not None:`
description_parts_not_none(unmute_reason) ==
    IF unmute_reason # None THEN <<unmute_reason[1]>> ELSE <<>>

\* `if unmute_reason:` appends it, and "\n".join of the one part is the part
description_parts(unmute_reason) ==
    IF unmute_reason # None /\ unmute_reason[1] # "" THEN <<unmute_reason[1]>> ELSE <<>>

\* discord_backend_send_alert, the payload
alert_data(issue, alert_reason, unmute_reason) ==
    LET embed == [title |-> truncatechars(issue.title, TitleLimit),
                  url |-> BASE_URL \o issue.absolute_url,
                  color |-> color_map_get(alert_reason),
                  fields |-> << [name |-> "Project", value |-> issue.project_name,
                                 inline |-> TRUE] >>]
        parts == description_parts(unmute_reason)
    IN  [content |-> "**" \o alert_reason \o " issue**",
         embeds |-> << IF parts # <<>>
                       THEN embed @@ [description |-> parts[1]]
                       ELSE embed >>]

\* requests.post(webhook_url, data=json.dumps(data), headers=..., timeout=5)
post_request(webhook_url, data) ==
    [url |-> webhook_url, data |-> data,
     content_type |-> "application/json", timeout |-> RequestTimeout]

\* ------------------------------------------------------- outcome of a POST
\* result.raise_for_status(): None when it returns, the HTTPError it raises
\* otherwise (it carries the response)
raise_for_status(result) ==
    IF 400 <= result.status_code /\ result.status_code < 500
    THEN Some(Exc("HTTPError", ToString(result.status_code) \o " Client Error",
                  Some(result)))
    ELSE IF 500 <= result.status_code /\ result.status_code < 600
    THEN Some(Exc("HTTPError", ToString(result.status_code) \o " Server Error",
                  Some(result)))
    ELSE None

\* the exception the body of the try block raises before any recorder call,
\* None when it reaches _store_success_info
try_block_exception(outcome) ==
    IF outcome.kind = "raise" THEN outcome.exception
    ELSE raise_for_status(outcome.response[1])

\* the response the except clause hands to _store_failure_info:
\* getattr(e, 'response', None) for a RequestException, the default None for
\* any other exception
handler_response(e) == IF IsRequestException(e) THEN e.response ELSE None

\* ---------------------------------------------------------- status recorder
\* MessagingServiceConfig.clear_failure_status (alerts/models.py)
clear_failure_status(config) ==
    [f \in DOMAIN config |-> IF f \in FailureFieldNames THEN None ELSE config[f]]

\* variants of store_failure_fields: the timestamp is not written; the else
\* branch is missing; the JSON check runs on the truncated text
store_failure_fields_no_timestamp(config, now, exception, response) ==
    LET base == [config EXCEPT !.last_failure_error_type = Some(exception.type),
                               !.last_failure_error_message = Some(exception.message)]
    IN  IF response # None
        THEN [base EXCEPT
                !.last_failure_status_code = Some(response[1].status_code),
                !.last_failure_response_text =
                    Some(Slice(response[1].text, ResponseTextLimit)),
                !.last_failure_is_json = Some(json_loads(response[1].text))]
        ELSE [base EXCEPT !.last_failure_status_code = None,
                          !.last_failure_response_text = None,
                          !.last_failure_is_json = None]

store_failure_fields_no_else(config, now, exception, response) ==
    LET base == [config EXCEPT !.last_failure_timestamp = Some(now),
                               !.last_failure_error_type = Some(exception.type),
                               !.last_failure_error_message = Some(exception.message)]
    IN  IF response # None
        THEN [base EXCEPT
                !.last_failure_status_code = Some(response[1].status_code),
                !.last_failure_response_text =
                    Some(Slice(response[1].text, ResponseTextLimit)),
                !.last_failure_is_json = Some(json_loads(response[1].text))]
        ELSE base

store_failure_fields_json_of_stored(config, now, exception, response) ==
    LET base == [config EXCEPT !.last_failure_timestamp = Some(now),
                               !.last_failure_error_type = Some(exception.type),
                               !.last_failure_error_message = Some(exception.message)]
    IN  IF response # None
        THEN [base EXCEPT
                !.last_failure_status_code = Some(response[1].status_code),
                !.last_failure_response_text =
                    Some(Slice(response[1].text, ResponseTextLimit)),
                !.last_failure_is_json =
                    Some(json_loads(Slice(response[1].text, ResponseTextLimit)))]
        ELSE [base EXCEPT !.last_failure_status_code = None,
                          !.last_failure_response_text = None,
                          !.last_failure_is_json = None]

\* further variants of store_failure_fields: the message is appended to the one
\* the row holds; the message of an earlier failure is kept
store_failure_fields_appends_message(config, now, exception, response) ==
    LET base == [config EXCEPT !.last_failure_timestamp = Some(now),
                               !.last_failure_error_type = Some(exception.type),
                               !.last_failure_error_message =
                                   IF @ = None THEN Some(exception.message)
                                   ELSE Some(@[1] \o "; " \o exception.message)]
    IN  IF response # None
        THEN [base EXCEPT
                !.last_failure_status_code = Some(response[1].status_code),
                !.last_failure_response_text =
                    Some(Slice(response[1].text, ResponseTextLimit)),
                !.last_failure_is_json = Some(json_loads(response[1].text))]
        ELSE [base EXCEPT !.last_failure_status_code = None,
                          !.last_failure_response_text = None,
                          !.last_failure_is_json = None]

store_failure_fields_first_message(config, now, exception, response) ==
    LET base == [config EXCEPT !.last_failure_timestamp = Some(now),
                               !.last_failure_error_type = Some(exception.type),
                               !.last_failure_error_message =
                                   IF @ = None THEN Some(exception.message) ELSE @]
    IN  IF response # None
        THEN [base EXCEPT
                !.last_failure_status_code = Some(response[1].status_code),
                !.last_failure_response_text =
                    Some(Slice(response[1].text, ResponseTextLimit)),
                !.last_failure_is_json = Some(json_loads(response[1].text))]
        ELSE [base EXCEPT !.last_failure_status_code = None,
                          !.last_failure_response_text = None,
                          !.last_failure_is_json = None]

\* _store_failure_info, the assignments between get() and save()
store_failure_fields(config, now, exception, response) ==
    LET base == [config EXCEPT !.last_failure_timestamp = Some(now),
                               !.last_failure_error_type = Some(exception.type),
                               !.last_failure_error_message = Some(exception.message)]
    IN  IF response # None
        THEN [base EXCEPT
                !.last_failure_status_code = Some(response[1].status_code),
                !.last_failure_response_text =
                    Some(Slice(response[1].text, ResponseTextLimit)),
                !.last_failure_is_json = Some(json_loads(response[1].text))]
        ELSE [base EXCEPT !.last_failure_status_code = None,
                          !.last_failure_response_text = None,
                          !.last_failure_is_json = None]

\* variant of store_failure_info: a missing row is created (get_or_create)
store_failure_info_creates(table, service_config_id, now, exception, response) ==
    IF service_config_id \in DOMAIN table
    THEN Some(store_failure_fields(table[service_config_id], now, exception, response))
    ELSE Some(store_failure_fields(NewRow(service_config_id), now, exception, response))

\* _store_failure_info inside the transaction: the row it saves, None when
\* get() raises DoesNotExist, which is passed over
store_failure_info(table, service_config_id, now, exception, response) ==
    IF service_config_id \in DOMAIN table
    THEN Some(store_failure_fields(table[service_config_id], now, exception, response))
    ELSE None

\* variants of store_success_info: the response fields are left as they are;
\* save() is missing
store_success_info_partial(table, service_config_id) ==
    IF service_config_id \in DOMAIN table
    THEN Some([table[service_config_id] EXCEPT !.last_failure_timestamp = None,
                                               !.last_failure_error_type = None,
                                               !.last_failure_error_message = None])
    ELSE None

store_success_info_no_save(table, service_config_id) == None

\* variant of store_success_info: the row is saved as it was created
store_success_info_resets_row(table, service_config_id) ==
    IF service_config_id \in DOMAIN table
    THEN Some(NewRow(service_config_id))
    ELSE None

\* _store_success_info inside the transaction, likewise
store_success_info(table, service_config_id) ==
    IF service_config_id \in DOMAIN table
    THEN Some(clear_failure_status(table[service_config_id]))
    ELSE None

\* the table once the transaction commits its save()
commit(table, service_config_id, saved) ==
    IF saved = None THEN table
    ELSE [c \in DOMAIN table \cup {service_config_id} |->
            IF c = service_config_id THEN saved[1] ELSE table[c]]

\* -------------------------------------------------------------------- jobs
\* A job is one execution of a task by the task runner: its arguments, its
\* position (pc), its local variables, the number of calls it has made, and
\* whether it had to wait for the write transaction (waited).
\*   queued          handed to the task runner by .delay()
\*   posting         requests.post in progress
\*   store_success   in _store_success_info, transaction not yet open
\*   store_failure   in _store_failure_info, transaction not yet open
\*   success_txn     inside immediate_atomic of _store_success_info, save() or
\*                   pass done
\*   failure_txn     inside immediate_atomic of _store_failure_info, likewise
\*   done            the task returned
\*   raised          an exception left the task
NoFrame ==
    [webhook_url |-> None, project_name |-> None, display_name |-> None,
     issue_id |-> None, alert_reason |-> None, unmute_reason |-> None,
     request |-> None, result |-> None, e |-> None, response |-> None]

NewJob(task, service_config_id, args) ==
    [task |-> task, service_config_id |-> service_config_id, pc |-> "queued",
     n_posts |-> 0, n_success |-> 0, n_failure |-> 0, waited |-> FALSE]
    @@ args @@ NoFrame

\* the job once its frame is gone: how it ended and what it called
Ended(job, pc, escaped) ==
    [task |-> job.task, service_config_id |-> job.service_config_id, pc |-> pc,
     n_posts |-> job.n_posts, n_success |-> job.n_success,
     n_failure |-> job.n_failure, waited |-> job.waited]
    @@ [e |-> escaped] @@ NoFrame

JobIds == 1..Len(jobs)

\* variant of send_test_message: the failure state is cleared when the test
\* message is scheduled
send_test_message_clears(c) ==
    /\ Len(jobs) < MaxJobs
    /\ c \in DOMAIN rows
    /\ jobs' = Append(jobs, NewJob("test", c,
                 [webhook_url |-> Some(rows[c].config.webhook_url),
                  project_name |-> Some(rows[c].project_name),
                  display_name |-> Some(rows[c].display_name)]))
    /\ rows' = [rows EXCEPT ![c] = clear_failure_status(rows[c])]
    /\ UNCHANGED <<issues, lock, txn, clock>>

\* DiscordBackend.send_test_message, for the stored configuration c
send_test_message(c) ==
    /\ Len(jobs) < MaxJobs
    /\ c \in DOMAIN rows
    /\ jobs' = Append(jobs, NewJob("test", c,
                 [webhook_url |-> Some(rows[c].config.webhook_url),
                  project_name |-> Some(rows[c].project_name),
                  display_name |-> Some(rows[c].display_name)]))
    /\ UNCHANGED <<rows, issues, lock, txn, clock>>

\* DiscordBackend.send_alert, for the stored configuration c
send_alert(c, issue_id, alert_reason, unmute_reason) ==
    /\ Len(jobs) < MaxJobs
    /\ c \in DOMAIN rows
    /\ issue_id \in issues
    /\ jobs' = Append(jobs, NewJob("alert", c,
                 [webhook_url |-> Some(rows[c].config.webhook_url),
                  issue_id |-> Some(issue_id),
                  alert_reason |-> Some(alert_reason),
                  unmute_reason |-> unmute_reason]))
    /\ UNCHANGED <<rows, issues, lock, txn, clock>>

\* variant of test_message_start: requests.post is called inside the
\* immediate transaction
test_message_start_in_transaction(j) ==
    /\ jobs[j].pc = "queued"
    /\ jobs[j].task = "test"
    /\ lock = 0
    /\ lock' = j
    /\ jobs' = [jobs EXCEPT ![j].pc = "posting",
                            ![j].n_posts = @ + 1,
                            ![j].request = Some(post_request(jobs[j].webhook_url[1],
                                test_message_data(jobs[j].project_name[1],
                                                  jobs[j].display_name[1])))]
    /\ UNCHANGED <<rows, issues, txn, clock>>

\* variant of test_message_start: the webhook_url is read from the row when the
\* task runs
test_message_start_rereads_url(j) ==
    /\ jobs[j].pc = "queued"
    /\ jobs[j].task = "test"
    /\ jobs' = [jobs EXCEPT ![j].pc = "posting",
                            ![j].n_posts = @ + 1,
                            ![j].request = Some(post_request(
                                IF jobs[j].service_config_id \in DOMAIN rows
                                THEN rows[jobs[j].service_config_id].config.webhook_url
                                ELSE jobs[j].webhook_url[1],
                                test_message_data(jobs[j].project_name[1],
                                                  jobs[j].display_name[1])))]
    /\ UNCHANGED <<rows, issues, lock, txn, clock>>

\* discord_backend_send_test_message up to the call of requests.post
test_message_start(j) ==
    /\ jobs[j].pc = "queued"
    /\ jobs[j].task = "test"
    /\ jobs' = [jobs EXCEPT ![j].pc = "posting",
                            ![j].n_posts = @ + 1,
                            ![j].request = Some(post_request(jobs[j].webhook_url[1],
                                test_message_data(jobs[j].project_name[1],
                                                  jobs[j].display_name[1])))]
    /\ UNCHANGED <<rows, issues, lock, txn, clock>>

\* discord_backend_send_alert up to the call of requests.post: Issue.objects.get
\* is outside the try block, so its DoesNotExist leaves the task
alert_start(j) ==
    /\ jobs[j].pc = "queued"
    /\ jobs[j].task = "alert"
    /\ IF jobs[j].issue_id[1] \in issues
       THEN jobs' = [jobs EXCEPT ![j].pc = "posting",
                                 ![j].n_posts = @ + 1,
                                 ![j].request = Some(post_request(jobs[j].webhook_url[1],
                                     alert_data(Issue(jobs[j].issue_id[1]),
                                                jobs[j].alert_reason[1],
                                                jobs[j].unmute_reason)))]
       ELSE jobs' = [jobs EXCEPT ![j] = Ended(jobs[j], "raised", Some(IssueDoesNotExist))]
    /\ UNCHANGED <<rows, issues, lock, txn, clock>>

\* variant of after_post: a failed attempt is run again
after_post_retries(job, outcome) ==
    LET raised == try_block_exception(outcome)
    IN  IF raised = None
        THEN [job EXCEPT !.pc = "store_success", !.request = None,
                         !.result = outcome.response,
                         !.n_success = @ + 1]
        ELSE [job EXCEPT !.pc = "queued", !.request = None]

\* the job after requests.post ended with `outcome`: the rest of the try block
\* up to the recorder call, or the except clause that catches up to its
\* recorder call
after_post(job, outcome) ==
    LET raised == try_block_exception(outcome)
    IN  IF raised = None
        THEN [job EXCEPT !.pc = "store_success", !.request = None,
                         !.result = outcome.response,
                         !.n_success = @ + 1]
        ELSE [job EXCEPT !.pc = "store_failure", !.request = None,
                         !.result = outcome.response,
                         !.e = raised,
                         !.response = handler_response(raised[1]),
                         !.n_failure = @ + 1]

post_returns(j, outcome) ==
    /\ jobs[j].pc = "posting"
    /\ jobs' = [jobs EXCEPT ![j] = after_post(jobs[j], outcome)]
    /\ UNCHANGED <<rows, issues, lock, txn, clock>>

\* the job after a recorder call raised `error`: inside the try block the
\* `except Exception` clause calls _store_failure_info with it, inside an except
\* clause it leaves the task
after_recorder_error(job, error) ==
    IF job.pc = "store_success"
    THEN [job EXCEPT !.pc = "store_failure", !.e = Some(error),
                     !.response = None, !.n_failure = @ + 1]
    ELSE Ended(job, "raised", Some(error))

\* a recorder call fails on the database before its transaction is open (the
\* database stays locked by another connection beyond the timeout, say)
recorder_raises(j) ==
    /\ jobs[j].pc \in {"store_success", "store_failure"}
    /\ jobs' = [jobs EXCEPT ![j] = after_recorder_error(jobs[j], OperationalError)]
    /\ UNCHANGED <<rows, issues, lock, txn, clock>>

\* entering immediate_atomic while another job holds the write transaction:
\* the job waits for it
immediate_atomic_waits(j) ==
    /\ jobs[j].pc \in {"store_success", "store_failure"}
    /\ lock # 0
    /\ ~jobs[j].waited
    /\ jobs' = [jobs EXCEPT ![j].waited = TRUE]
    /\ UNCHANGED <<rows, issues, lock, txn, clock>>

\* _store_success_info up to the end of the with block: immediate_atomic takes
\* the write transaction at once, one job at a time, then get,
\* clear_failure_status and save, or DoesNotExist passed over
store_success_body(j) ==
    /\ jobs[j].pc = "store_success"
    /\ lock = 0
    /\ lock' = j
    /\ txn' = store_success_info(rows, jobs[j].service_config_id)
    /\ jobs' = [jobs EXCEPT ![j].pc = "success_txn"]
    /\ UNCHANGED <<rows, issues, clock>>

\* _store_failure_info up to the end of the with block, likewise
store_failure_body(j) ==
    /\ jobs[j].pc = "store_failure"
    /\ lock = 0
    /\ lock' = j
    /\ txn' = store_failure_info(rows, jobs[j].service_config_id, clock,
                                 jobs[j].e[1], jobs[j].response)
    /\ clock' = IF jobs[j].service_config_id \in DOMAIN rows THEN clock + 1 ELSE clock
    /\ jobs' = [jobs EXCEPT ![j].pc = "failure_txn"]
    /\ UNCHANGED <<rows, issues>>

\* the with block is left: the transaction commits, the recorder and the task
\* return
immediate_atomic_exit(j) ==
    /\ jobs[j].pc \in {"success_txn", "failure_txn"}
    /\ rows' = commit(rows, jobs[j].service_config_id, txn)
    /\ txn' = None
    /\ lock' = 0
    /\ jobs' = [jobs EXCEPT ![j] = Ended(jobs[j], "done", None)]
    /\ UNCHANGED <<issues, clock>>

\* the configuration UI deletes a configuration
delete_config(c) ==
    /\ c \in DOMAIN rows
    /\ lock = 0
    /\ rows' = [d \in DOMAIN rows \ {c} |-> rows[d]]
    /\ UNCHANGED <<issues, jobs, lock, txn, clock>>

\* the configuration UI saves the form of a configuration with another
\* webhook_url (DiscordConfigForm.get_config): a write, which waits while a
\* recorder holds the write transaction
edit_config(c, webhook_url) ==
    /\ c \in DOMAIN rows
    /\ lock = 0
    /\ rows[c].config.webhook_url # webhook_url
    /\ rows' = [rows EXCEPT ![c].config = [webhook_url |-> webhook_url]]
    /\ UNCHANGED <<issues, jobs, lock, txn, clock>>

\* an issue is deleted
delete_issue(i) ==
    /\ i \in issues
    /\ lock = 0
    /\ issues' = issues \ {i}
    /\ UNCHANGED <<rows, jobs, lock, txn, clock>>

\* --------------------------------------------------------- specification
\* a failure left by a delivery before the first one modelled
EarlierFailure ==
    [NewRow(1) EXCEPT
        !.last_failure_timestamp = Some(0),
        !.last_failure_error_type = Some("HTTPError"),
        !.last_failure_error_message = Some("502 Server Error"),
        !.last_failure_status_code = Some(502),
        !.last_failure_response_text =
            Some(<< <<"1", 1>>, <<" ", ResponseTextLimit - 1>> >>),
        !.last_failure_is_json = Some(FALSE)]

AlertInputs == { <<"NEW", None>> }

Init ==
    /\ rows \in { [c \in ConfigIds |-> IF c = 1 THEN r ELSE NewRow(c)] :
                    r \in {NewRow(1), EarlierFailure} }
    /\ issues = IssueIds
    /\ jobs = <<>>
    /\ lock = 0
    /\ txn = None
    /\ clock = 1

Next ==
    \/ send_test_message(BackendConfig)
    \/ \E i \in IssueIds, a \in AlertInputs :
          send_alert(BackendConfig, i, a[1], a[2])
    \/ \E j \in JobIds : test_message_start(j)
    \/ \E j \in JobIds : alert_start(j)
    \/ \E j \in JobIds, outcome \in PostOutcomes : post_returns(j, outcome)
    \/ \E j \in JobIds : recorder_raises(j)
    \/ \E j \in JobIds : immediate_atomic_waits(j)
    \/ \E j \in JobIds : store_success_body(j)
    \/ \E j \in JobIds : store_failure_body(j)
    \/ \E j \in JobIds : immediate_atomic_exit(j)
    \/ delete_config(BackendConfig)
    \/ \E i \in IssueIds : delete_issue(i)

Spec == Init /\ [][Next]_vars

\* Deliveries while the configuration UI edits the webhook_url: one success,
\* one rejection and one transport failure as the outcomes of the POST.
WebhookUrls == {NewRow(BackendConfig).config.webhook_url, "https://discord.example/moved"}

EditOutcomes ==
    { o \in PostOutcomes :
        \/ o.kind = "response" /\ o.response[1].status_code \in {204, 404}
        \/ o.kind = "raise" /\ o.exception = Some(ConnectionError) }

NextEdit ==
    \/ send_test_message(BackendConfig)
    \/ \E i \in IssueIds, a \in AlertInputs :
          send_alert(BackendConfig, i, a[1], a[2])
    \/ \E j \in JobIds : test_message_start(j)
    \/ \E j \in JobIds : alert_start(j)
    \/ \E j \in JobIds, outcome \in EditOutcomes : post_returns(j, outcome)
    \/ \E j \in JobIds : recorder_raises(j)
    \/ \E j \in JobIds : store_success_body(j)
    \/ \E j \in JobIds : store_failure_body(j)
    \/ \E j \in JobIds : immediate_atomic_exit(j)
    \/ delete_config(BackendConfig)
    \/ \E u \in WebhookUrls : edit_config(BackendConfig, u)
    \/ \E i \in IssueIds : delete_issue(i)

SpecEdit == Init /\ [][NextEdit]_vars

\* The payload builder alone: alerts of every reason, with and without an
\* unmute_reason, for issues with titles of TitleLimit characters and longer,
\* and test messages, each followed up to its call of requests.post.
PayloadIssueIds == {1, 2, 3}
AlertReasons == {"NEW", "REGRESSED", "UNMUTED", "RESOLVED", "new"}
UnmuteReasons == {None, Some(""), Some("flaky")}

InitPayload ==
    /\ rows = [c \in ConfigIds |-> NewRow(c)]
    /\ issues = PayloadIssueIds
    /\ jobs = <<>>
    /\ lock = 0
    /\ txn = None
    /\ clock = 1

NextPayload ==
    \/ send_test_message(BackendConfig)
    \/ \E i \in PayloadIssueIds, a \in AlertReasons, u \in UnmuteReasons :
          send_alert(BackendConfig, i, a, u)
    \/ \E j \in JobIds : test_message_start(j)
    \/ \E j \in JobIds : alert_start(j)

SpecPayload == InitPayload /\ [][NextPayload]_vars

\* ------------------------------------------------------------------ claims
Cleared(row) == \A f \in FailureFieldNames : row[f] = None

FailureOf(row) == [f \in FailureFieldNames |-> row[f]]

\* which of the sample bodies are JSON documents as a whole
IsJsonDocument(text) == text \in {BodyShortJson, BodyFullValid}

\* the failure fields a completed failure recording of (exception, response)
\* made at time `now` is to leave
ExpectedFailure(now, exception, response) ==
    [last_failure_timestamp |-> Some(now),
     last_failure_error_type |-> Some(exception.type),
     last_failure_error_message |-> Some(exception.message),
     last_failure_status_code |->
        IF response = None THEN None ELSE Some(response[1].status_code),
     last_failure_response_text |->
        IF response = None THEN None
        ELSE Some(Slice(response[1].text, ResponseTextLimit)),
     last_failure_is_json |->
        IF response = None THEN None ELSE Some(IsJsonDocument(response[1].text))]

\* (exception, response) pairs a delivery attempt can hand to the recorder
HttpErrorMessage(r) ==
    ToString(r.status_code)
        \o (IF r.status_code < 500 THEN " Client Error" ELSE " Server Error")

Attempts ==
    { [e |-> Exc("HTTPError", HttpErrorMessage(r), Some(r)), response |-> Some(r)] :
        r \in {x \in SampleResponses : x.status_code >= 400} }
    \cup { [e |-> x, response |-> None] :
             x \in {ConnectionError, UnicodeError, OperationalError} }

HasEnded(j) == jobs[j].pc \in {"done", "raised"}

\* job j leaves the with block of its recorder in this step
Commits(j) == jobs[j].pc \in {"success_txn", "failure_txn"} /\ jobs'[j].pc = "done"

RecordedSuccessOnly(j) ==
    jobs[j].pc = "done" /\ jobs[j].n_success = 1 /\ jobs[j].n_failure = 0

RecordedFailureOnly(j) ==
    jobs[j].pc = "done" /\ jobs[j].n_success = 0 /\ jobs[j].n_failure = 1

\* C1: no exception ever leaves a delivery job: no job ends as raised.
C1_NoExceptionEscapes == \A j \in JobIds : jobs[j].pc # "raised"

\* C2: a delivery job that has ended has called the Status Recorder exactly
\* once: one call of _store_success_info or of _store_failure_info, not none and
\* not both.
C2_ExactlyOneRecorderCall ==
    \A j \in JobIds : HasEnded(j) => jobs[j].n_success + jobs[j].n_failure = 1

\* C3: when one job records success and another records failure on the same
\* existing row, then as the later of the two commits the row is entirely
\* cleared, or holds exactly the field set of the failure recording: cleared if
\* the success commits last, the committing failure's own set otherwise.
C3_NoMixedState ==
    [][\A j \in JobIds, k \in JobIds :
        LET c == jobs[j].service_config_id
        IN  ( /\ j # k
              /\ jobs[k].service_config_id = c
              /\ c \in DOMAIN rows
              /\ Commits(j)
              /\ \/ jobs[j].pc = "success_txn" /\ RecordedFailureOnly(k)
                 \/ jobs[j].pc = "failure_txn" /\ jobs[j].n_success = 0
                                               /\ RecordedSuccessOnly(k) )
            => IF jobs[j].pc = "success_txn"
               THEN Cleared(rows'[c])
               ELSE FailureOf(rows'[c]) =
                       ExpectedFailure(clock - 1, jobs[j].e[1], jobs[j].response)
      ]_vars

\* a success recording and a failure recording on the same existing row, one of
\* which waited for the other's transaction, have both completed and the row
\* holds the failure
C3_Witness ==
    \E j \in JobIds, k \in JobIds :
        /\ RecordedSuccessOnly(j) /\ RecordedFailureOnly(k)
        /\ jobs[j].service_config_id = jobs[k].service_config_id
        /\ jobs[j].service_config_id \in DOMAIN rows
        /\ jobs[j].waited \/ jobs[k].waited
        /\ ~Cleared(rows[jobs[j].service_config_id])
        /\ rows[jobs[j].service_config_id].last_failure_timestamp # Some(0)

\* C4: every committed row has its failure fields all cleared, or holds the
\* timestamp, error type and error message together with exactly the
\* response fields of one and the same attempt.
C4_FailureFieldsOfOneAttempt ==
    \A c \in DOMAIN rows :
        \/ Cleared(rows[c])
        \/ \E a \in Attempts, now \in 0..clock :
              FailureOf(rows[c]) = ExpectedFailure(now, a.e, a.response)

\* a transport failure recorded over at least one earlier recorded failure
C4_Witness ==
    \E c \in DOMAIN rows :
        /\ rows[c].last_failure_error_type = Some("ConnectionError")
        /\ rows[c].last_failure_timestamp # None
        /\ rows[c].last_failure_timestamp[1] >= 2

\* C5: when a success recording on an existing row commits, all six failure
\* fields of the row are cleared, whatever the row held before.
C5_SuccessClears ==
    [][\A j \in JobIds :
        ( /\ jobs[j].pc = "success_txn"
          /\ Commits(j)
          /\ jobs[j].service_config_id \in DOMAIN rows )
        => Cleared(rows'[jobs[j].service_config_id])
      ]_vars

\* a success recording has completed after a failure recording had completed on
\* the same row, and the row reads as cleared
C5_Witness ==
    \E j \in JobIds, k \in JobIds :
        /\ RecordedSuccessOnly(j) /\ RecordedFailureOnly(k)
        /\ jobs[j].service_config_id = jobs[k].service_config_id
        /\ clock > 1
        /\ jobs[j].service_config_id \in DOMAIN rows
        /\ Cleared(rows[jobs[j].service_config_id])

\* the failure path of job j has been entered with the response r, and the row
\* its recorder has saved, if any, holds r's status code, truncated body and
\* JSON flag
FailureRecordedWith(j, r) ==
    /\ jobs[j].n_failure = 1
    /\ jobs[j].response = Some(r)
    /\ (jobs[j].pc = "failure_txn" /\ jobs[j].service_config_id \in DOMAIN rows)
        => /\ txn # None
           /\ txn[1].last_failure_status_code = Some(r.status_code)
           /\ txn[1].last_failure_response_text = Some(Slice(r.text, ResponseTextLimit))
           /\ txn[1].last_failure_is_json = Some(IsJsonDocument(r.text))

Is2xx(status) == 200 <= status /\ status <= 299

IsHttpError(status) == 400 <= status /\ status <= 599

\* C6: a running job has called the success recorder exactly when its POST
\* returned a 2xx response, and for any other response it is in the failure
\* path with that response's status code, truncated body and JSON flag.
C6_SuccessIff2xx ==
    \A j \in JobIds :
        ~HasEnded(j) =>
            /\ (jobs[j].n_success = 1)
                 <=> (jobs[j].result # None /\ Is2xx(jobs[j].result[1].status_code))
            /\ (jobs[j].result # None /\ ~Is2xx(jobs[j].result[1].status_code))
                 => FailureRecordedWith(j, jobs[j].result[1])

\* what the code does instead: the success recorder is called exactly when the
\* POST returned a response whose status is not 4xx or 5xx, and a 4xx or 5xx
\* response is in the failure path with its status code, truncated body and
\* JSON flag.
SuccessIffNoHttpError ==
    \A j \in JobIds :
        ~HasEnded(j) =>
            /\ (jobs[j].n_success = 1)
                 <=> (jobs[j].result # None /\ ~IsHttpError(jobs[j].result[1].status_code))
            /\ (jobs[j].result # None /\ IsHttpError(jobs[j].result[1].status_code))
                 => FailureRecordedWith(j, jobs[j].result[1])

\* C7: when a failure recording that was handed a response commits on an
\* existing row, the row's status code is the response's, its response text is
\* the first 2000 characters of the body, and its JSON flag tells whether the
\* whole body is a JSON document.
C7_ResponseFields ==
    [][\A j \in JobIds :
        LET c == jobs[j].service_config_id
            r == jobs[j].response
        IN  ( /\ jobs[j].pc = "failure_txn"
              /\ Commits(j)
              /\ r # None
              /\ c \in DOMAIN rows )
            => /\ rows'[c].last_failure_status_code = Some(r[1].status_code)
               /\ rows'[c].last_failure_response_text =
                     Some(Slice(r[1].text, ResponseTextLimit))
               /\ TextLen(rows'[c].last_failure_response_text[1]) <= ResponseTextLimit
               /\ TextLen(rows'[c].last_failure_response_text[1]) =
                     IF TextLen(r[1].text) < ResponseTextLimit
                     THEN TextLen(r[1].text) ELSE ResponseTextLimit
               /\ rows'[c].last_failure_is_json = Some(IsJsonDocument(r[1].text))
      ]_vars

\* a row holds the failure of a body that is JSON as a whole but not in its
\* first 2000 characters: the stored text is 2000 long and is no JSON, the flag
\* is true
C7_Witness ==
    \E c \in DOMAIN rows :
        /\ rows[c].last_failure_status_code = Some(400)
        /\ rows[c].last_failure_response_text # None
        /\ TextLen(rows[c].last_failure_response_text[1]) = ResponseTextLimit
        /\ ~json_loads(rows[c].last_failure_response_text[1])
        /\ rows[c].last_failure_is_json = Some(TRUE)

\* C8: when a failure recording that was handed no response commits on an
\* existing row, the row's status code, response text and JSON flag are null,
\* whatever they were before.
C8_NoResponseNulls ==
    [][\A j \in JobIds :
        LET c == jobs[j].service_config_id
        IN  ( /\ jobs[j].pc = "failure_txn"
              /\ Commits(j)
              /\ jobs[j].response = None
              /\ c \in DOMAIN rows )
            => /\ rows'[c].last_failure_status_code = None
               /\ rows'[c].last_failure_response_text = None
               /\ rows'[c].last_failure_is_json = None
      ]_vars

\* a failure recording that was handed no response has saved nulls for a row
\* whose committed state still holds the three response fields of an earlier
\* failure
C8_Witness ==
    \E j \in JobIds :
        LET c == jobs[j].service_config_id
        IN  /\ jobs[j].pc = "failure_txn"
            /\ jobs[j].response = None
            /\ c \in DOMAIN rows
            /\ rows[c].last_failure_status_code # None
            /\ rows[c].last_failure_response_text # None
            /\ rows[c].last_failure_is_json # None
            /\ txn # None
            /\ txn[1].last_failure_status_code = None

\* C9: a recorder that runs for an identifier with no row saves nothing, leaves
\* the table as it is (no row created, none changed), and its job goes on to
\* return, not to raise.
C9_MissingRowNoOp ==
    [][\A j \in JobIds :
        LET c == jobs[j].service_config_id
        IN  ( /\ c \notin DOMAIN rows
              /\ \/ /\ jobs[j].pc \in {"store_success", "store_failure"}
                    /\ jobs'[j].pc \in {"success_txn", "failure_txn"}
                 \/ /\ jobs[j].pc \in {"success_txn", "failure_txn"}
                    /\ jobs'[j] # jobs[j] )
            => /\ rows' = rows
               /\ txn' = None
               /\ jobs'[j].pc \in {"success_txn", "failure_txn", "done"}
      ]_vars

\* a job whose row was deleted after scheduling is inside its recorder, which
\* saved nothing, and the other row is there
C9_Witness ==
    \E j \in JobIds :
        /\ jobs[j].pc \in {"success_txn", "failure_txn"}
        /\ jobs[j].service_config_id \notin DOMAIN rows
        /\ txn = None
        /\ DOMAIN rows # {}

\* C10: a job that ends after an exception that is no RequestException, raised
\* while building the payload (re-resolving the issue included) or delivering
\* it, leaves on its existing row a failure with the exception's type name and
\* message and null response fields.
C10_UnexpectedExceptionRecorded ==
    [][\A j \in JobIds :
        LET c == jobs[j].service_config_id
            x == IF jobs'[j].pc = "raised" THEN jobs'[j].e ELSE jobs[j].e
        IN  ( /\ ~HasEnded(j)
              /\ jobs'[j].pc \in {"done", "raised"}
              /\ x # None
              /\ x[1].type \in {"Issue.DoesNotExist", "UnicodeError"}
              /\ c \in DOMAIN rows )
            => \E now \in 0..clock :
                  FailureOf(rows'[c]) = ExpectedFailure(now, x[1], None)
      ]_vars

\* the failure fields of a row but the timestamp
FailureButTimestamp(row) ==
    [f \in FailureFieldNames \ {"last_failure_timestamp"} |-> row[f]]

\* the table after the recorder call that job j is committing is applied to
\* `table` once more, at the time `now`
Replayed(table, j, now) ==
    LET c == jobs[j].service_config_id
    IN  IF jobs[j].pc = "success_txn"
        THEN commit(table, c, store_success_info(table, c))
        ELSE commit(table, c,
                    store_failure_info(table, c, now, jobs[j].e[1], jobs[j].response))

\* C11: the recorders are idempotent: as a recording commits, applying the same
\* recorder call once more to the committed table gives the same table, for
\* record_success exactly and for record_failure (same exception and response)
\* in everything but the timestamp of the row.
C11_RecorderIdempotent ==
    [][\A j \in JobIds :
        Commits(j) =>
            LET c == jobs[j].service_config_id
                again == Replayed(rows', j, clock)
            IN  /\ DOMAIN again = DOMAIN rows'
                /\ \A d \in DOMAIN again \ {c} : again[d] = rows'[d]
                /\ c \in DOMAIN again =>
                      /\ \A f \in DOMAIN again[c] \ FailureFieldNames :
                            again[c][f] = rows'[c][f]
                      /\ FailureButTimestamp(again[c]) = FailureButTimestamp(rows'[c])
                      /\ jobs[j].pc = "success_txn" => again[c] = rows'[c]
      ]_vars

\* a failure recording is open on a row that already holds a failure, and its
\* replay at a later time differs from what it saved in the timestamp alone
C11_Witness ==
    \E j \in JobIds :
        LET c == jobs[j].service_config_id
        IN  /\ jobs[j].pc = "failure_txn"
            /\ c \in DOMAIN rows
            /\ ~Cleared(rows[c])
            /\ txn # None
            /\ LET once == commit(rows, c, txn)
                   again == Replayed(once, j, clock)
               IN  /\ again[c].last_failure_timestamp # once[c].last_failure_timestamp
                   /\ FailureButTimestamp(again[c]) = FailureButTimestamp(once[c])

\* C12: no job holds the recorder transaction while its POST is pending or in
\* progress: the holder of the transaction has finished its one POST, and a job
\* that is posting does not keep a job that has reached its recorder from
\* opening the transaction when no recorder holds it.
C12_NoLockAcrossPost ==
    /\ \A j \in JobIds : jobs[j].pc \in {"queued", "posting"} => lock # j
    /\ lock # 0 =>
          /\ lock \in JobIds
          /\ jobs[lock].pc \in {"success_txn", "failure_txn"}
          /\ jobs[lock].n_posts = 1
          /\ jobs[lock].request = None
    /\ lock = 0 => txn = None
    /\ \A j \in JobIds, k \in JobIds :
          (jobs[j].pc = "posting" /\ lock = 0) =>
              /\ jobs[k].pc = "store_success" => ENABLED store_success_body(k)
              /\ jobs[k].pc = "store_failure" => ENABLED store_failure_body(k)

\* one job is inside its recorder transaction while the POST of another job on
\* the same configuration is in progress
C12_Witness ==
    \E j \in JobIds, k \in JobIds :
        /\ jobs[j].pc = "posting"
        /\ jobs[j].request # None
        /\ jobs[k].pc \in {"success_txn", "failure_txn"}
        /\ lock = k
        /\ jobs[j].service_config_id = jobs[k].service_config_id

\* C13: a job performs at most one POST, a job that has ended never runs
\* again, a job that has left the queue never returns to it or to the POST, and
\* no step of a job hands a job to the task runner.
C13_SinglePostNoRetry ==
    [][/\ \A j \in JobIds :
            /\ jobs'[j].n_posts <= 1
            /\ jobs'[j].n_posts >= jobs[j].n_posts
            /\ HasEnded(j) => jobs'[j] = jobs[j]
            /\ jobs[j].pc # "queued" => jobs'[j].pc # "queued"
            /\ jobs[j].pc \notin {"queued", "posting"} => jobs'[j].pc # "posting"
       /\ (\E j \in JobIds : jobs'[j] # jobs[j]) => Len(jobs') = Len(jobs)
      ]_vars

\* a job whose one POST failed has returned, after recording the failure
C13_Witness ==
    \E j \in JobIds :
        /\ RecordedFailureOnly(j)
        /\ jobs[j].n_posts = 1
        /\ jobs[j].service_config_id \in DOMAIN rows
        /\ rows[jobs[j].service_config_id].last_failure_timestamp # None
        /\ rows[jobs[j].service_config_id].last_failure_timestamp[1] >= 1

\* C14: a step that hands a job to the task runner does nothing else: the new
\* job is queued with no POST made, the table and the transaction are as they
\* were and no other job moves; and the failure fields of a row change only
\* in the step in which a job commits its recorder call for that row.
C14_SchedulingOnlySchedules ==
    [][/\ Len(jobs') # Len(jobs) =>
            /\ Len(jobs') = Len(jobs) + 1
            /\ jobs'[Len(jobs')].pc = "queued"
            /\ jobs'[Len(jobs')].n_posts = 0
            /\ jobs'[Len(jobs')].n_success + jobs'[Len(jobs')].n_failure = 0
            /\ jobs'[Len(jobs')].request = None
            /\ \A j \in JobIds : jobs'[j] = jobs[j]
            /\ rows' = rows /\ txn' = txn /\ lock' = lock
       /\ \A c \in DOMAIN rows \cap DOMAIN rows' :
            FailureOf(rows'[c]) # FailureOf(rows[c]) =>
                \E j \in JobIds : Commits(j) /\ jobs[j].service_config_id = c
      ]_vars

\* a job was scheduled after an earlier job had recorded a failure, it has not
\* started, and the row still holds that failure
C14_Witness ==
    \E j \in JobIds, k \in JobIds :
        LET c == jobs[j].service_config_id
        IN  /\ jobs[j].pc = "queued"
            /\ jobs[j].n_posts = 0
            /\ k < j
            /\ RecordedFailureOnly(k)
            /\ c \in DOMAIN rows
            /\ rows[c].last_failure_timestamp = Some(clock - 1)
            /\ clock > 1

\* the alert job j has built its payload and is calling requests.post
PostingAlert(j) == jobs[j].task = "alert" /\ jobs[j].pc = "posting"

AlertEmbed(j) == jobs[j].request[1].data.embeds[1]

\* C15: the embed of an alert payload has a description key exactly when an
\* unmute_reason was given and is not empty, the description is then the
\* unmute_reason, and a description is never the empty string.
C15_DescriptionIffUnmuteReason ==
    \A j \in JobIds :
        PostingAlert(j) =>
            LET u == jobs[j].unmute_reason
                present == u # None /\ u[1] # ""
            IN  /\ ("description" \in DOMAIN AlertEmbed(j)) <=> present
                /\ present => AlertEmbed(j).description = u[1]
                /\ "description" \in DOMAIN AlertEmbed(j)
                      => AlertEmbed(j).description # ""

\* two alerts are being posted: one with the unmute_reason flaky as its
\* description, one scheduled with an empty unmute_reason or with none and
\* without a description key
C15_Witness ==
    \E j \in JobIds, k \in JobIds :
        /\ PostingAlert(j) /\ PostingAlert(k)
        /\ jobs[j].unmute_reason = Some("flaky")
        /\ "description" \in DOMAIN AlertEmbed(j)
        /\ AlertEmbed(j).description = "flaky"
        /\ jobs[k].unmute_reason \in {None, Some("")}
        /\ "description" \notin DOMAIN AlertEmbed(k)

\* C16: the color of an alert payload is defined for every alert_reason: NEW,
\* REGRESSED and UNMUTED give three pairwise distinct colors, and any other
\* alert_reason gives the default color, which is the color of the test
\* message.
C16_ColorTotal ==
    /\ ColorNew # ColorRegressed /\ ColorNew # ColorUnmuted
    /\ ColorRegressed # ColorUnmuted
    /\ \A j \in JobIds :
          PostingAlert(j) =>
              LET reason == jobs[j].alert_reason[1]
              IN  /\ "color" \in DOMAIN AlertEmbed(j)
                  /\ reason = "NEW" => AlertEmbed(j).color = ColorNew
                  /\ reason = "REGRESSED" => AlertEmbed(j).color = ColorRegressed
                  /\ reason = "UNMUTED" => AlertEmbed(j).color = ColorUnmuted
                  /\ reason \notin {"NEW", "REGRESSED", "UNMUTED"} =>
                        /\ AlertEmbed(j).color = DefaultColor
                        /\ AlertEmbed(j).color =
                              test_message_data("project", "discord").embeds[1].color

\* an alert of a reason outside the color map and a test message are being
\* posted, with the same color, which is none of the three of the color map
C16_Witness ==
    \E j \in JobIds, k \in JobIds :
        /\ PostingAlert(j)
        /\ jobs[j].alert_reason = Some("RESOLVED")
        /\ jobs[k].task = "test" /\ jobs[k].pc = "posting"
        /\ AlertEmbed(j).color = jobs[k].request[1].data.embeds[1].color
        /\ AlertEmbed(j).color \notin {ColorNew, ColorRegressed, ColorUnmuted}

TruncationMarker == << <<"...", 1>> >>

OriginalTitle(j) == Issue(jobs[j].issue_id[1]).title

\* C17, as the code has it: for a title longer than 200 characters the embed
\* title is the first 199 characters of the title followed by the truncation
\* marker, 200 characters in all; a title of at most 200 characters is embedded
\* unchanged.
C17_TitleWithin200 ==
    \A j \in JobIds :
        PostingAlert(j) =>
            IF TextLen(OriginalTitle(j)) <= TitleLimit
            THEN AlertEmbed(j).title = OriginalTitle(j)
            ELSE /\ AlertEmbed(j).title =
                       Slice(OriginalTitle(j), TitleLimit - 1) \o TruncationMarker
                 /\ TextLen(AlertEmbed(j).title) = TitleLimit

\* C17, as stated: for a title longer than 200 characters the embed title is
\* the first 200 characters of the title followed by the truncation marker; a
\* title of at most 200 characters is embedded unchanged.
C17_TitleKeeps200 ==
    \A j \in JobIds :
        PostingAlert(j) =>
            IF TextLen(OriginalTitle(j)) <= TitleLimit
            THEN AlertEmbed(j).title = OriginalTitle(j)
            ELSE AlertEmbed(j).title =
                    Slice(OriginalTitle(j), TitleLimit) \o TruncationMarker

\* alerts for a title of 250 and for one of 200 characters are being posted:
\* the first with a title of 200 characters that ends in the marker and lacks
\* the 200th character of the original, the second with its own title
C17_Witness ==
    \E j \in JobIds, l \in JobIds :
        /\ PostingAlert(j) /\ PostingAlert(l)
        /\ TextLen(OriginalTitle(j)) = TitleLimit + 50
        /\ TextLen(OriginalTitle(l)) = TitleLimit
        /\ TextLen(AlertEmbed(j).title) = TitleLimit
        /\ AlertEmbed(j).title = << <<"a", TitleLimit - 1>>, <<"...", 1>> >>
        /\ AlertEmbed(l).title = OriginalTitle(l)

\* C18: a recording that commits on an existing row leaves exactly its own
\* failure fields there (all cleared for a success, the complete set of its
\* attempt for a failure), and between commits the failure fields of a row do
\* not change: when all jobs have completed the row holds what the last
\* committed recording wrote.
C18_LastCommitWins ==
    [][/\ \A j \in JobIds :
            LET c == jobs[j].service_config_id
            IN  (Commits(j) /\ c \in DOMAIN rows) =>
                    FailureOf(rows'[c]) =
                        IF jobs[j].pc = "success_txn" THEN ClearedFailure
                        ELSE ExpectedFailure(clock - 1, jobs[j].e[1], jobs[j].response)
       /\ \A c \in DOMAIN rows \cap DOMAIN rows' :
            (~\E j \in JobIds : Commits(j) /\ jobs[j].service_config_id = c)
                => FailureOf(rows'[c]) = FailureOf(rows[c])
      ]_vars

\* two failure recordings on the same row have completed, all jobs have ended,
\* and the row holds the later one, a transport failure, with nothing of the
\* earlier
C18_Witness ==
    /\ Len(jobs) >= 2
    /\ \A j \in JobIds : HasEnded(j)
    /\ \E j \in JobIds, k \in JobIds :
          /\ j # k
          /\ RecordedFailureOnly(j) /\ RecordedFailureOnly(k)
          /\ jobs[j].service_config_id = jobs[k].service_config_id
          /\ jobs[j].service_config_id \in DOMAIN rows
          /\ clock >= 3
          /\ FailureOf(rows[jobs[j].service_config_id]) =
                ExpectedFailure(clock - 1, ConnectionError, None)

\* the fields of a row that are no failure fields
NonFailureOf(row) == [f \in DOMAIN row \ FailureFieldNames |-> row[f]]

\* job j enters the transaction of its recorder, or leaves it, in this step
RecorderStep(j) ==
    \/ /\ jobs[j].pc \in {"store_success", "store_failure"}
       /\ jobs'[j].pc \in {"success_txn", "failure_txn"}
    \/ Commits(j)

\* C19: a step of the recorder for identifier c creates and deletes no row,
\* changes no other row, and leaves config, display_name and project of row c
\* at their committed values; and the row an open transaction has saved never
\* differs from the committed row in these fields, so no edit of the
\* configuration is undone by the full-row save.
C19_RecorderFrame ==
    [][/\ \A j \in JobIds :
            LET c == jobs[j].service_config_id
            IN  RecorderStep(j) =>
                    /\ DOMAIN rows' = DOMAIN rows
                    /\ \A d \in DOMAIN rows \ {c} : rows'[d] = rows[d]
                    /\ c \in DOMAIN rows =>
                          NonFailureOf(rows'[c]) = NonFailureOf(rows[c])
       /\ (lock' # 0 /\ txn' # None) =>
             /\ jobs'[lock'].service_config_id \in DOMAIN rows'
             /\ NonFailureOf(txn'[1]) =
                   NonFailureOf(rows'[jobs'[lock'].service_config_id])
      ]_vars

\* a success recording has saved, with the webhook_url it holds now, a row
\* whose webhook_url was edited after the job was scheduled and that holds an
\* earlier failure
C19_Witness ==
    \E j \in JobIds :
        LET c == jobs[j].service_config_id
        IN  /\ jobs[j].pc = "success_txn"
            /\ c \in DOMAIN rows
            /\ txn # None
            /\ ~Cleared(rows[c])
            /\ rows[c].config.webhook_url # NewRow(c).config.webhook_url
            /\ jobs[j].webhook_url = Some(NewRow(c).config.webhook_url)
            /\ txn[1].config = rows[c].config

\* C20: a job is scheduled with the webhook_url its configuration holds at
\* that moment, keeps it, and posts to it, whatever the row holds when the job
\* runs; and its recording is written to the row of its service_config_id as
\* that row is when the recorder runs, the edited config included.
C20_PostsToScheduledUrl ==
    [][/\ Len(jobs') = Len(jobs) + 1 =>
            LET new == jobs'[Len(jobs')]
            IN  /\ new.service_config_id \in DOMAIN rows
                /\ new.webhook_url =
                      Some(rows[new.service_config_id].config.webhook_url)
       /\ \A j \in JobIds :
            LET c == jobs[j].service_config_id
            IN  /\ jobs'[j].service_config_id = c
                /\ jobs'[j].pc \notin {"done", "raised"} =>
                      jobs'[j].webhook_url = jobs[j].webhook_url
                /\ jobs'[j].pc = "posting" =>
                      jobs'[j].request[1].url = jobs[j].webhook_url[1]
                /\ (Commits(j) /\ c \in DOMAIN rows) =>
                      /\ rows'[c].config = rows[c].config
                      /\ FailureOf(rows'[c]) =
                            IF jobs[j].pc = "success_txn" THEN ClearedFailure
                            ELSE ExpectedFailure(clock - 1, jobs[j].e[1],
                                                 jobs[j].response)
      ]_vars

\* the rejection of a POST to the webhook_url of scheduling time is being
\* recorded on a row that holds another webhook_url by now
C20_Witness ==
    \E j \in JobIds :
        LET c == jobs[j].service_config_id
        IN  /\ jobs[j].pc = "failure_txn"
            /\ jobs[j].n_posts = 1
            /\ jobs[j].response # None
            /\ jobs[j].response[1].status_code = 404
            /\ c \in DOMAIN rows
            /\ jobs[j].webhook_url # Some(rows[c].config.webhook_url)
            /\ txn # None
            /\ txn[1].last_failure_status_code = Some(404)
            /\ txn[1].config.webhook_url = "https://discord.example/moved"

====
